---- MODULE Spec2Model ----
(***************************************************************************)
(* Invoice service of the billing system: the Invoice / LineItem models    *)
(* (models/invoice.py), the generation service                             *)
(* (services/invoice_generator.py) and the REST routes (api/routes.py).    *)
(*                                                                         *)
(* Money is a Decimal with two places and is held as an integer number of  *)
(* cents; a product with a tax rate is held in 1/10000 units until it is   *)
(* quantized.  Python's None is the string "None".                         *)
(***************************************************************************)
EXTENDS Integers, Sequences, FiniteSets, TLC

VARIABLES
    db,        \* the invoice store behind get_invoice_from_db / store_invoice
    req,       \* the route requests: position, locals and response of each
    notes,     \* the notifications delivered by the notifier
    input,     \* the raw invoice_data a caller of the service holds
    invoice,   \* the in-memory Invoice object the model / service calls act on
    oid,       \* identity of that object (a counter of constructed objects)
    result,    \* what the last model / service call returned or raised
    calls,     \* the log of invoice-number allocation calls
    clock      \* datetime.utcnow()

vars == <<db, req, notes, input, invoice, oid, result, calls, clock>>

routeVars == <<db, req, notes>>

objVars == <<input, invoice, oid, result, calls, clock>>

(***************************************************************************)
(* Bounds of the model.                                                    *)
(***************************************************************************)
MaxInvoices == 1      \* invoice ids the store can hold
MaxRequests == 1      \* route requests being handled at a time
MaxNotes == 2         \* notifications the notifier keeps
MaxCalls == 2         \* allocation calls of one run
MaxObjects == 2       \* Invoice objects constructed in one run
MaxUuid == 2          \* uuid4 draws from the window below
MaxClock == 2         \* instants the clock can pass through
MaxItems == 2         \* line items of an enumerated raw input
MaxQuantity == 2      \* quantity of an enumerated line item

None == "None"

(***************************************************************************)
(* models/invoice.py: constants                                            *)
(***************************************************************************)
INVOICE_STATUSES == {"DRAFT", "PENDING", "PAID", "OVERDUE", "CANCELLED"}

SUPPORTED_CURRENCIES == {"USD", "INR", "IDR"}

\* Decimal('0.18'), in hundredths
TAX_RATES == [t \in {"GST", "IGST"} |-> 18]

ALLOWED_STATE_TRANSITIONS_Terminal ==
    [s \in INVOICE_STATUSES |->
        CASE s = "DRAFT" -> {"PENDING"}
          [] s = "PENDING" -> {"PAID", "OVERDUE", "CANCELLED"}
          [] s = "OVERDUE" -> {"PAID", "CANCELLED"}
          [] s = "PAID" -> {"PENDING"}
          [] OTHER -> {}]

ALLOWED_STATE_TRANSITIONS ==
    [s \in INVOICE_STATUSES |->
        CASE s = "DRAFT" -> {"PENDING"}
          [] s = "PENDING" -> {"PAID", "OVERDUE", "CANCELLED"}
          [] s = "OVERDUE" -> {"PAID", "CANCELLED"}
          [] s = "PAID" -> {}
          [] OTHER -> {}]

BILLING_STATE == "Maharashtra"

REQUIRED_FIELDS == {"name", "address", "tax_id", "state"}

(***************************************************************************)
(* Decimal arithmetic                                                      *)
(***************************************************************************)
Abs(n) == IF n < 0 THEN 0 - n ELSE n

\* Decimal.quantize(Decimal('0.01'), rounding=ROUND_HALF_UP) of n / d, where
\* n / d is a number of cents: a tie goes away from zero.
Quantize(n, d) ==
    LET q == (2 * Abs(n) + d) \div (2 * d)
    IN  IF n < 0 THEN 0 - q ELSE q

RECURSIVE SumAmounts(_)
\* sum(item.amount for item in line_items), added up by halves
SumAmounts(items) ==
    IF items = <<>> THEN 0
    ELSE IF Len(items) = 1 THEN items[1].amount
    ELSE LET mid == Len(items) \div 2
         IN  SumAmounts(SubSeq(items, 1, mid))
             + SumAmounts(SubSeq(items, mid + 1, Len(items)))

(***************************************************************************)
(* Outcomes of a call: a value, or the exception it raised.  An exception  *)
(* is its type, its messages (a pydantic ValidationError lists one per     *)
(* failed validator, in the order they ran) and the two values its message *)
(* interpolates, if any.  ValidationError is a subclass of ValueError.     *)
(***************************************************************************)
NoError == [type |-> None, msgs |-> <<>>, from |-> None, to |-> None]

Error(type, msg, from, to) ==
    [type |-> type, msgs |-> <<msg>>, from |-> from, to |-> to]

ValueError(msg) == Error("ValueError", msg, None, None)

ValidationError(msgs) ==
    [type |-> "ValidationError", msgs |-> msgs, from |-> None, to |-> None]

KeyError(key) == Error("KeyError", key, None, None)

IsValueError(e) == e.type \in {"ValueError", "ValidationError"}

Raised(e) == e.type # None

(***************************************************************************)
(* models/invoice.py: LineItem                                             *)
(***************************************************************************)
\* amount: Decimal = Field(None): the value of an amount that was not given
NoAmount == -1

\* regex='^[A-Z]{3}$' on the currency codes the model enumerates
MatchesCurrencyRegex(v) == v \in SUPPORTED_CURRENCIES \cup {"EUR"}

\* The messages of the field validators of currency_code, in the order run.
CurrencyFieldErrors(v) ==
    IF ~MatchesCurrencyRegex(v) THEN <<"string does not match regex">>
    ELSE IF v \notin SUPPORTED_CURRENCIES THEN <<"Currency not supported">>
    ELSE <<>>

\* A root validator that keeps the amount the input supplied.
calculate_amount_KeepSupplied(values) ==
    IF values.amount # NoAmount THEN values
    ELSE [values EXCEPT !.amount = Quantize(values.quantity * values.unit_price, 1)]

\* LineItem.calculate_amount (root validator): amount = quantity * unit_price
\* quantized to cents, whatever amount the input carried.
calculate_amount(values) ==
    [values EXCEPT !.amount = Quantize(values.quantity * values.unit_price, 1)]

\* The messages of the field validators of a LineItem, in field order.
LineItemFieldErrors(raw) ==
    (IF raw.quantity > 0 THEN <<>>
     ELSE <<"ensure this value is greater than 0">>)
    \o (IF raw.unit_price > 0 THEN <<>>
        ELSE <<"ensure this value is greater than 0">>)
    \o CurrencyFieldErrors(raw.currency_code)

\* LineItem(**raw): the field validators, then the root validator.
LineItem_init(raw) ==
    IF LineItemFieldErrors(raw) # <<>>
    THEN [ok |-> FALSE, error |-> ValidationError(LineItemFieldErrors(raw)),
          value |-> raw]
    ELSE [ok |-> TRUE, error |-> NoError, value |-> calculate_amount(raw)]

RECURSIVE ErrorMsgs(_)
\* The messages of the outcomes that failed, in order.
ErrorMsgs(outcomes) ==
    IF outcomes = <<>> THEN <<>>
    ELSE IF Len(outcomes) = 1 THEN outcomes[1].error.msgs
    ELSE LET mid == Len(outcomes) \div 2
         IN  ErrorMsgs(SubSeq(outcomes, 1, mid))
             \o ErrorMsgs(SubSeq(outcomes, mid + 1, Len(outcomes)))

\* List[LineItem] from the LineItem(**raw) outcomes of the elements: the
\* items, or the errors of all of them.
LineItemsFrom(made) ==
    IF \A i \in 1..Len(made) : made[i].ok
    THEN [ok |-> TRUE, error |-> NoError,
          value |-> [i \in 1..Len(made) |-> made[i].value]]
    ELSE [ok |-> FALSE, error |-> ValidationError(ErrorMsgs(made)),
          value |-> <<>>]

\* List[LineItem]: every element is validated; the errors are collected.
LineItems_validate(raws) ==
    LineItemsFrom([i \in 1..Len(raws) |-> LineItem_init(raws[i])])

(***************************************************************************)
(* models/invoice.py: Invoice                                              *)
(***************************************************************************)
\* invoice_number: Optional[str].  A string is held as the parts it was
\* formatted from; fmt "None" is None and fmt "" is the empty string.
NoNumber == [fmt |-> "None", prefix |-> 0, period |-> 0, seq |-> 0]

EmptyNumber == [fmt |-> "", prefix |-> 0, period |-> 0, seq |-> 0]

\* Python truthiness of an Optional[str]
Truthy(number) == number.fmt \notin {"None", ""}

\* Python truthiness of a str or None
TruthyStr(s) == s \notin {None, ""}

\* customer_details.get('state')
CustomerState(customer_details) ==
    IF "state" \in customer_details.keys THEN customer_details.state ELSE None

\* A status validator that accepts any string.
validate_status_Any(v) == <<>>

\* Invoice.validate_status
validate_status(v) ==
    IF v \notin INVOICE_STATUSES
    THEN <<"Invalid status. Must be one of">>
    ELSE <<>>

\* A validator of customer_details that asks for no key.
validate_customer_details_Any(v) == <<>>

\* Invoice.validate_customer_details
validate_customer_details(v) ==
    IF ~(\A field \in REQUIRED_FIELDS : field \in v.keys)
    THEN <<"Customer details must contain">>
    ELSE <<>>

\* The outcome of a call of the guard: what it returned or raised, and the
\* invoice as the call left it.
Rejected(self, error) ==
    [ok |-> FALSE, value |-> FALSE, error |-> error, self |-> self]

Accepted(self) ==
    [ok |-> TRUE, value |-> TRUE, error |-> NoError, self |-> self]

\* Invoice.validate_state_transition that lets a status "move" to itself.
validate_state_transition_SelfAllowed(self, new_status) ==
    IF new_status \notin INVOICE_STATUSES
    THEN Rejected(self, Error("ValueError", "Invalid status", None, new_status))
    ELSE IF new_status # self.status
            /\ new_status \notin ALLOWED_STATE_TRANSITIONS[self.status]
    THEN Rejected(self, Error("ValueError", "Invalid transition",
                              self.status, new_status))
    ELSE Accepted(self)

\* Invoice.validate_state_transition: returns True, or raises the ValueError
\* that names the status or the transition; it assigns nothing.
validate_state_transition(self, new_status) ==
    IF new_status \notin INVOICE_STATUSES
    THEN Rejected(self, Error("ValueError", "Invalid status", None, new_status))
    ELSE IF new_status \notin
              (IF self.status \in DOMAIN ALLOWED_STATE_TRANSITIONS
               THEN ALLOWED_STATE_TRANSITIONS[self.status] ELSE {})
    THEN Rejected(self, Error("ValueError", "Invalid transition",
                              self.status, new_status))
    ELSE Accepted(self)

\* Invoice.validate_tax_type with the comparison inverted.
validate_tax_type_Swapped(self) ==
    LET customer_state == CustomerState(self.customer_details)
    IN  IF ~TruthyStr(customer_state)
        THEN [ok |-> FALSE, value |-> None,
              error |-> ValueError("Customer state is required for tax calculation")]
        ELSE [ok |-> TRUE, error |-> NoError,
              value |-> IF customer_state = BILLING_STATE THEN "IGST" ELSE "GST"]

\* Invoice.validate_tax_type: the tax type, or the ValueError it raises.
validate_tax_type(self) ==
    LET customer_state == CustomerState(self.customer_details)
        billing_state == BILLING_STATE
    IN  IF ~TruthyStr(customer_state)
        THEN [ok |-> FALSE, value |-> None,
              error |-> ValueError("Customer state is required for tax calculation")]
        ELSE LET tax_type == IF customer_state # billing_state
                             THEN "IGST" ELSE "GST"
             IN  IF tax_type \notin DOMAIN TAX_RATES
                 THEN [ok |-> FALSE, value |-> None,
                       error |-> ValueError("Invalid tax type")]
                 ELSE [ok |-> TRUE, value |-> tax_type, error |-> NoError]

RECURSIVE PerItemTax(_, _)
PerItemTax(items, rate) ==
    IF items = <<>> THEN 0
    ELSE IF Len(items) = 1 THEN Quantize(items[1].amount * rate, 100)
    ELSE LET mid == Len(items) \div 2
         IN  PerItemTax(SubSeq(items, 1, mid), rate)
             + PerItemTax(SubSeq(items, mid + 1, Len(items)), rate)

\* The tax of calculate_totals computed on every line item and added up.
TaxAmount_PerItem(line_items, subtotal, tax_rate) ==
    PerItemTax(line_items, tax_rate)

\* (subtotal * tax_rate).quantize(Decimal('0.01'), rounding=ROUND_HALF_UP)
TaxAmount(line_items, subtotal, tax_rate) ==
    Quantize(subtotal * tax_rate, 100)

\* calculate_totals, the branch `if tax_type:` taken: tax and total
TotalsTaxed(values, subtotal, tax_amount) ==
    [ok |-> TRUE, error |-> NoError,
     value |-> [values EXCEPT
                   !.subtotal = Quantize(subtotal, 1),
                   !.tax_amount = tax_amount,
                   !.total_amount = Quantize(subtotal + tax_amount, 1)]]

\* calculate_totals from the subtotal on
TotalsFrom(values, subtotal) ==
    IF TruthyStr(values.tax_type)
    THEN IF values.tax_type \notin DOMAIN TAX_RATES
         THEN [ok |-> FALSE, value |-> values,
               error |-> KeyError(values.tax_type)]
         ELSE TotalsTaxed(values, subtotal,
                  TaxAmount(values.line_items, subtotal,
                            TAX_RATES[values.tax_type]))
    ELSE [ok |-> TRUE, error |-> NoError,
          value |-> [values EXCEPT !.subtotal = Quantize(subtotal, 1),
                                   !.total_amount = subtotal]]

\* Invoice.calculate_totals (root validator) on the dict of validated values;
\* a field that failed its validator is missing from the dict, which
\* values.get reads as [] for line_items and None for currency_code.
calculate_totals(values) ==
    IF values.line_items = <<>>
    THEN [ok |-> TRUE, error |-> NoError, value |-> values]
    ELSE IF ~(\A i \in 1..Len(values.line_items) :
                  values.line_items[i].currency_code = values.currency_code)
    THEN [ok |-> FALSE, value |-> values,
          error |-> ValueError("All line items must use the same currency as the invoice")]
    ELSE TotalsFrom(values, SumAmounts(values.line_items))

\* The outcome of Invoice(**data) from the field errors and the outcome of
\* the root validator: every ValueError is collected into one
\* ValidationError, any other exception propagates.
InvoiceFrom(data, field_errs, root) ==
    IF root.error.type = "KeyError"
    THEN [ok |-> FALSE, error |-> root.error, value |-> data]
    ELSE IF field_errs \o root.error.msgs # <<>>
    THEN [ok |-> FALSE, value |-> data,
          error |-> ValidationError(field_errs \o root.error.msgs)]
    ELSE [ok |-> TRUE, error |-> NoError, value |-> root.value]

\* The dict the root validator of Invoice(**data) gets
ValidatedValues(data, items) ==
    [data EXCEPT
        !.line_items = items.value,
        !.currency_code = IF CurrencyFieldErrors(data.currency_code) = <<>>
                          THEN data.currency_code ELSE None]

\* The field validators of Invoice(**data), in field order
InvoiceFieldErrors(data, items) ==
    validate_status(data.status)
    \o CurrencyFieldErrors(data.currency_code)
    \o items.error.msgs
    \o validate_customer_details(data.customer_details)

\* Invoice(**data) with the line items validated
InvoiceWith(data, items) ==
    InvoiceFrom(data, InvoiceFieldErrors(data, items),
                calculate_totals(ValidatedValues(data, items)))

\* Invoice(**data): the field validators in field order, then the root
\* validator (it runs whether or not a field failed).
Invoice_init(data) == InvoiceWith(data, LineItems_validate(data.line_items))

\* The value a field takes when `value` is assigned to it
Validated(name, value) ==
    IF name = "line_items" THEN LineItems_validate(value).value ELSE value

\* The field validators that run when `name` is assigned.
FieldErrors(name, value) ==
    CASE name = "status" -> validate_status(value)
      [] name = "currency_code" -> CurrencyFieldErrors(value)
      [] name = "line_items" -> LineItems_validate(value).error.msgs
      [] name = "customer_details" -> validate_customer_details(value)
      [] OTHER -> <<>>

\* The outcome of an assignment from the field errors and the outcome of the
\* root validator; when anything raised, self is unchanged.
SetAttrFrom(self, errs, root) ==
    IF errs # <<>>
    THEN [ok |-> FALSE, error |-> ValidationError(errs), value |-> self]
    ELSE IF root.error.type = "KeyError"
    THEN [ok |-> FALSE, error |-> root.error, value |-> self]
    ELSE IF ~root.ok
    THEN [ok |-> FALSE, error |-> ValidationError(root.error.msgs),
          value |-> self]
    ELSE [ok |-> TRUE, error |-> NoError, value |-> root.value]

\* Config.validate_assignment = True: `self.<name> = value` validates the
\* value, runs the root validator on the new values and replaces the whole
\* __dict__ by what it returns.  No field is declared immutable.
SetAttr(self, name, value) ==
    SetAttrFrom(self, FieldErrors(name, value),
                calculate_totals([self EXCEPT ![name] = Validated(name, value)]))

(***************************************************************************)
(* datetime and uuid                                                       *)
(***************************************************************************)
\* The clock counts half months.  strftime('%Y%m'): the month of an instant.
strftime_Ym(now) == now \div 2

RECURSIVE NumDigits(_)
\* len(str(n))
NumDigits(n) == IF n < 10 THEN 1 ELSE 1 + NumDigits(n \div 10)

RECURSIVE Pow10(_)
Pow10(k) == IF k = 0 THEN 1 ELSE 10 * Pow10(k - 1)

\* str(n)[:k], as the number the digits spell (str(n) has no leading zero)
StrPrefix(n, k) ==
    IF NumDigits(n) <= k THEN n ELSE n \div Pow10(NumDigits(n) - k)

\* uuid.uuid4().int: a window of the 128-bit values, one that holds values
\* whose first six digits agree and values whose first six digits differ.
UuidInts == 12345698..(12345698 + MaxUuid)

\* settings.INVOICE_NUMBER_PREFIX
INVOICE_NUMBER_PREFIX == 1000

\* str(uuid.uuid4().int)[:6]
UNIQUE_ID_LEN == 6

\* sequential_number = 1  # This would come from a database sequence
SEQUENTIAL_NUMBER == 1

\* The INV-YYYYMM-XXXX of generate_invoice_number
ModelNumber(now) ==
    [fmt |-> "INV-%Y%m-%04d", prefix |-> 0,
     period |-> strftime_Ym(now), seq |-> SEQUENTIAL_NUMBER]

\* generate_invoice_number after `self.invoice_number = number`
NumberAssigned(set, number) ==
    [ok |-> set.ok, error |-> set.error, value |-> set.value,
     returned |-> IF set.ok THEN number ELSE NoNumber]

\* Invoice.generate_invoice_number without the early return for an invoice
\* that has a number.
generate_invoice_number_Always(self, now) ==
    NumberAssigned(SetAttr(self, "invoice_number", ModelNumber(now)),
                   ModelNumber(now))

\* Invoice.generate_invoice_number: returns the number the invoice has, or
\* formats INV-YYYYMM-XXXX, assigns it and returns it.
generate_invoice_number(self, now) ==
    IF Truthy(self.invoice_number)
    THEN [ok |-> TRUE, error |-> NoError, value |-> self,
          returned |-> self.invoice_number]
    ELSE NumberAssigned(SetAttr(self, "invoice_number", ModelNumber(now)),
                        ModelNumber(now))

(***************************************************************************)
(* services/invoice_generator.py: InvoiceGenerator                         *)
(***************************************************************************)
\* InvoiceGenerator._generate_invoice_number
_generate_invoice_number(now, uuid) ==
    LET prefix == INVOICE_NUMBER_PREFIX
        timestamp == strftime_Ym(now)
        unique_id == StrPrefix(uuid, UNIQUE_ID_LEN)
    IN  [fmt |-> "INV-prefix-%Y%m-id", prefix |-> prefix,
         period |-> timestamp, seq |-> unique_id]

\* The currency of the first line item whose currency is not the invoice's,
\* or None.
FirstMismatch(items, currency) ==
    LET bad == {i \in 1..Len(items) : items[i].currency_code # currency}
    IN  IF bad = {} THEN None
        ELSE items[CHOOSE i \in bad : \A j \in bad : i <= j].currency_code

\* InvoiceGenerator._validate_line_items
_validate_line_items(inv) ==
    IF inv.line_items = <<>>
    THEN [ok |-> FALSE, value |-> inv,
          error |-> ValueError("Invoice must have at least one line item")]
    ELSE IF FirstMismatch(inv.line_items, inv.currency_code) # None
    THEN [ok |-> FALSE, value |-> inv,
          error |-> Error("ValueError",
                          "Line item currency does not match invoice currency",
                          FirstMismatch(inv.line_items, inv.currency_code),
                          inv.currency_code)]
    ELSE [ok |-> TRUE, error |-> NoError, value |-> inv]

\* A local rate table whose IGST rate is not the model's.
tax_rates_Reduced == [t \in {"GST", "IGST"} |-> IF t = "IGST" THEN 12 ELSE 18]

\* The local rate table of calculate_tax
tax_rates == [t \in {"GST", "IGST"} |-> 18]

\* calculate_tax from the outcome of validate_tax_type on
TaxFrom(inv, tax_type) ==
    IF ~tax_type.ok
    THEN [ok |-> FALSE, error |-> tax_type.error, value |-> inv, amount |-> 0]
    ELSE IF tax_type.value \notin DOMAIN tax_rates
    THEN [ok |-> FALSE, error |-> ValueError("Invalid tax type"),
          value |-> inv, amount |-> 0]
    ELSE IF tax_rates[tax_type.value] = 0
    THEN [ok |-> FALSE, error |-> ValueError("Invalid tax type"),
          value |-> inv, amount |-> 0]
    ELSE [ok |-> TRUE, error |-> NoError, value |-> inv,
          amount |-> Quantize(inv.subtotal * tax_rates[tax_type.value], 100)]

\* InvoiceGenerator.calculate_tax: the tax amount (in `amount`), or the
\* exception; the invoice is not assigned to.
calculate_tax(inv) == TaxFrom(inv, validate_tax_type(inv))

\* _calculate_invoice_totals: invoice.total_amount = ...
TotalsStepTotal(o) ==
    IF ~o.ok THEN o
    ELSE SetAttr(o.value, "total_amount",
                 Quantize(o.value.subtotal + o.value.tax_amount, 1))

\* _calculate_invoice_totals: invoice.tax_amount = <the tax calculated>
TotalsAssignTax(o, tax) ==
    IF ~tax.ok THEN [ok |-> FALSE, error |-> tax.error, value |-> o.value]
    ELSE SetAttr(o.value, "tax_amount", tax.amount)

\* _calculate_invoice_totals: invoice.tax_amount = self.calculate_tax(invoice)
TotalsStepTax(o) ==
    IF ~o.ok THEN o ELSE TotalsAssignTax(o, calculate_tax(o.value))

\* InvoiceGenerator._calculate_invoice_totals: three assignments in a row,
\* each validated; `value` is the invoice as the call leaves it. The sum of
\* no amounts is the int 0, which has no quantize.
_calculate_invoice_totals(inv) ==
    IF inv.line_items = <<>>
    THEN [ok |-> FALSE, value |-> inv,
          error |-> Error("AttributeError",
                          "'int' object has no attribute 'quantize'",
                          None, None)]
    ELSE TotalsStepTotal(TotalsStepTax(
             SetAttr(inv, "subtotal", Quantize(SumAmounts(inv.line_items), 1))))

\* Whether generate_invoice reaches `self._generate_invoice_number()`, that
\* is, draws a uuid4 and reads the clock.
generate_invoice_draws(made) ==
    made.ok /\ ~Truthy(made.value.invoice_number)

\* generate_invoice: if not invoice.invoice_number: invoice.invoice_number = ...
StepNumber(made, now, uuid) ==
    IF ~made.ok THEN made
    ELSE IF ~Truthy(made.value.invoice_number)
    THEN SetAttr(made.value, "invoice_number", _generate_invoice_number(now, uuid))
    ELSE made

\* generate_invoice: invoice.tax_type = <the tax type resolved>
AssignTaxType(o, tax_type) ==
    IF ~tax_type.ok
    THEN [ok |-> FALSE, error |-> tax_type.error, value |-> o.value]
    ELSE SetAttr(o.value, "tax_type", tax_type.value)

\* generate_invoice without the assignment of the tax type resolved: the tax
\* type the input carried stays.
StepTaxType_Skipped(o) == o

\* generate_invoice: invoice.tax_type = invoice.validate_tax_type()
StepTaxType(o) ==
    IF ~o.ok THEN o ELSE AssignTaxType(o, validate_tax_type(o.value))

\* generate_invoice: self._validate_line_items(invoice)
StepLineItems(o) == IF ~o.ok THEN o ELSE _validate_line_items(o.value)

\* generate_invoice: self._calculate_invoice_totals(invoice)
StepTotals(o) == IF ~o.ok THEN o ELSE _calculate_invoice_totals(o.value)

\* generate_invoice without its last assignment: the status the input
\* carried stays.
StepStatus_Skipped(o) == o

\* generate_invoice: invoice.status = 'DRAFT'
StepStatus(o) == IF ~o.ok THEN o ELSE SetAttr(o.value, "status", "DRAFT")

\* generate_invoice after invoice = Invoice(**invoice_data)
GenerateFrom(made, now, uuid) ==
    StepStatus(StepTotals(StepLineItems(StepTaxType(StepNumber(made, now, uuid)))))

\* InvoiceGenerator.generate_invoice: the invoice, or the exception of the
\* first step that raised (logged and re-raised as it is).
generate_invoice(invoice_data, now, uuid) ==
    GenerateFrom(Invoice_init(invoice_data), now, uuid)

\* STORAGE_PREFIX
STORAGE_PREFIX == "invoices/"

\* ExpiresIn=3600  # URL expires in 1 hour
URL_EXPIRES_IN == 3600

\* `if not invoice.invoice_number or not invoice.line_items`
IncompleteInvoice(inv) ==
    ~Truthy(inv.invoice_number) \/ inv.line_items = <<>>

\* PDFGenerator.generate_pdf: the path of the temporary file it wrote, or the
\* exception of the canvas or of the file system (`rendered` is which).
generate_pdf(inv, rendered) ==
    IF rendered
    THEN [ok |-> TRUE, error |-> NoError,
          returned |-> [path |-> "otpless_invoice_.pdf",
                        invoice_number |-> inv.invoice_number]]
    ELSE [ok |-> FALSE, returned |-> [path |-> None],
          error |-> Error("Exception", "Error generating PDF", None, None)]

\* InvoiceGenerator.store_document: the presigned URL of the key the file was
\* uploaded under, or the exception of open or of the S3 client (`stored` is
\* which).
store_document(pdf_path, invoice_number, uuid, stored) ==
    IF stored
    THEN [ok |-> TRUE, error |-> NoError,
          returned |-> [url |-> "get_object",
                        key |-> [prefix |-> STORAGE_PREFIX,
                                 invoice_number |-> invoice_number,
                                 uuid |-> uuid],
                        expires_in |-> URL_EXPIRES_IN]]
    ELSE [ok |-> FALSE, returned |-> [url |-> None],
          error |-> Error("Exception", "Error storing document", None, None)]

\* generate_pdf_document after store_document returned or raised `doc`;
\* `invoked` is the collaborators' outcomes in the order they were called.
DocumentStored(pdf, doc) ==
    [ok |-> doc.ok, error |-> doc.error, returned |-> doc.returned,
     invoked |-> <<[api |-> "generate_pdf", ok |-> pdf.ok,
                    returned |-> pdf.returned],
                   [api |-> "store_document", ok |-> doc.ok,
                    returned |-> doc.returned]>>]

\* generate_pdf_document after generate_pdf returned or raised `pdf`
DocumentRendered(inv, pdf, uuid, stored) ==
    IF ~pdf.ok
    THEN [ok |-> FALSE, error |-> pdf.error, returned |-> [url |-> None],
          invoked |-> <<[api |-> "generate_pdf", ok |-> FALSE,
                         returned |-> pdf.returned]>>]
    ELSE DocumentStored(pdf, store_document(pdf.returned, inv.invoice_number,
                                            uuid, stored))

\* generate_pdf_document without its completeness check
generate_pdf_document_Unchecked(inv, rendered, stored, uuid) ==
    DocumentRendered(inv, generate_pdf(inv, rendered), uuid, stored)

\* InvoiceGenerator.generate_pdf_document: the URL store_document returned,
\* or the exception (logged and re-raised as it is).
generate_pdf_document(inv, rendered, stored, uuid) ==
    IF IncompleteInvoice(inv)
    THEN [ok |-> FALSE, returned |-> [url |-> None], invoked |-> <<>>,
          error |-> ValueError("Invoice must be complete before generating PDF")]
    ELSE DocumentRendered(inv, generate_pdf(inv, rendered), uuid, stored)

(***************************************************************************)
(* Raw inputs                                                              *)
(***************************************************************************)
Item(quantity, unit_price, currency_code) ==
    [quantity |-> quantity, unit_price |-> unit_price,
     amount |-> NoAmount, currency_code |-> currency_code]

Customer(keys, state) == [keys |-> keys, state |-> state]

\* TEST_INVOICE_DATA of the test suite, fields left out given their defaults
TEST_INVOICE_DATA ==
    [invoice_number |-> NoNumber, status |-> "DRAFT", currency_code |-> "USD",
     line_items |-> <<Item(1000, 1, "USD")>>,
     subtotal |-> 0, tax_amount |-> 0, tax_type |-> None, total_amount |-> 0,
     customer_details |-> Customer(REQUIRED_FIELDS, "Maharashtra")]

\* A number a caller supplies: any string, here one of the service's shape
SuppliedNumber == _generate_invoice_number(0, 12345698)

States == {"Maharashtra", "Karnataka", "", None}

\* The inputs of the number-allocation runs
AllocInputs ==
    {[TEST_INVOICE_DATA EXCEPT !.invoice_number = n,
                               !.customer_details = Customer(REQUIRED_FIELDS, st)] :
        n \in {NoNumber, EmptyNumber, SuppliedNumber},
        st \in {"Maharashtra", ""}}

\* Line items of 0.25 each, whose tax has half-cent ties
Catalog ==
    {Item(q, 25, c) : q \in 1..MaxQuantity, c \in {"USD", "INR"}}

RECURSIVE SeqsUpTo(_, _)
SeqsUpTo(S, n) ==
    IF n = 0 THEN {<<>>}
    ELSE LET shorter == SeqsUpTo(S, n - 1)
         IN  shorter \cup {Append(q, x) : q \in shorter, x \in S}

\* test_performance_large_invoice: 100 line items of 1000 x 0.01
LargeItems == [i \in 1..100 |-> Item(1000, 1, "USD")]

\* The inputs of the totals runs
TotalsInputs ==
    {[TEST_INVOICE_DATA EXCEPT !.line_items = items,
                               !.customer_details = Customer(REQUIRED_FIELDS, st),
                               !.tax_type = tt,
                               !.subtotal = sub] :
        items \in SeqsUpTo(Catalog, MaxItems) \cup {<<Item(1000, 1, "USD")>>, LargeItems},
        st \in States,
        tt \in {None, "GST", "VAT"},
        sub \in {0, 999}}

(***************************************************************************)
(* The model and the service called directly on one in-memory object      *)
(***************************************************************************)
NoInvoice == [exists |-> FALSE]

NoResult ==
    [op |-> None, arg |-> None, ok |-> TRUE, error |-> NoError,
     value |-> NoInvoice, str |-> None, amount |-> 0]

Result(op, arg, ok, error, value, str, amount) ==
    [op |-> op, arg |-> arg, ok |-> ok, error |-> error,
     value |-> value, str |-> str, amount |-> amount]

\* The uuid4 values drawn so far; uuid4 does not return a value twice.
Drawn == {calls[i].uuid : i \in 1..Len(calls)}

RoutesIdle ==
    /\ db = [i \in 1..MaxInvoices |-> NoInvoice]
    /\ req = [r \in 1..MaxRequests |->
                [pc |-> "idle", route |-> None, permitted |-> FALSE,
                 invoice_id |-> 0, status |-> None,
                 read |-> NoInvoice, checked |-> NoInvoice,
                 invoice |-> NoInvoice,
                 guard |-> [called |-> FALSE, ok |-> FALSE, value |-> FALSE,
                            error |-> NoError],
                 ops |-> <<>>, cause |-> None,
                 response |-> [code |-> 0, detail |-> None, from |-> None,
                               to |-> None]]]
    /\ notes = <<>>

InitObject ==
    /\ RoutesIdle
    /\ invoice = NoInvoice
    /\ oid = 0
    /\ result = NoResult
    /\ calls = <<>>
    /\ clock = 0

\* The effect of invoice = Invoice(**invoice_data)
Constructed(made) ==
    /\ invoice' = IF made.ok THEN made.value ELSE invoice
    /\ oid' = IF made.ok THEN oid + 1 ELSE oid
    /\ result' = Result("Invoice", None, made.ok, made.error,
                        IF made.ok THEN made.value ELSE NoInvoice, None, 0)

\* invoice = Invoice(**invoice_data)
Construct ==
    /\ oid < MaxObjects
    /\ Constructed(Invoice_init(input))
    /\ UNCHANGED <<routeVars, input, calls, clock>>

\* The effect of a generate_invoice call that constructed `made`, drew `uuid`
\* if it drew, and ended with `r`
Generated(made, r, uuid) ==
    /\ generate_invoice_draws(made) => Len(calls) < MaxCalls
    /\ ~generate_invoice_draws(made)
           => uuid = CHOOSE u \in UuidInts \ Drawn : TRUE
    /\ invoice' = IF r.ok THEN r.value ELSE invoice
    /\ oid' = IF made.ok THEN oid + 1 ELSE oid
    /\ result' = Result("generate_invoice", None, r.ok, r.error,
                        IF r.ok THEN r.value ELSE NoInvoice, None, 0)
    /\ calls' = IF made.ok
                THEN Append(calls,
                       [api |-> "generate_invoice", oid |-> oid + 1,
                        before |-> made.value.invoice_number,
                        after |-> r.value.invoice_number,
                        returned |-> r.value.invoice_number,
                        ok |-> r.ok,
                        drew |-> generate_invoice_draws(made),
                        uuid |-> IF generate_invoice_draws(made) THEN uuid ELSE 0,
                        period |-> strftime_Ym(clock)])
                ELSE calls

\* invoice = invoice_generator.generate_invoice(invoice_data)
GenerateInvoice ==
    /\ oid < MaxObjects
    /\ \E uuid \in UuidInts \ Drawn :
         Generated(Invoice_init(input), generate_invoice(input, clock, uuid), uuid)
    /\ UNCHANGED <<routeVars, input, clock>>

\* The effect of a generate_invoice_number call that ended with `r`
NumberGenerated(r) ==
    /\ invoice' = r.value
    /\ result' = Result("generate_invoice_number", None, r.ok, r.error,
                        r.value, None, 0)
    /\ calls' = Append(calls,
                  [api |-> "generate_invoice_number", oid |-> oid,
                   before |-> invoice.invoice_number,
                   after |-> r.value.invoice_number,
                   returned |-> r.returned,
                   ok |-> r.ok,
                   drew |-> FALSE, uuid |-> 0,
                   period |-> strftime_Ym(clock)])

\* await invoice.generate_invoice_number(); the coroutine has no await
\* inside, so it runs in one piece.
GenerateInvoiceNumber ==
    /\ invoice # NoInvoice
    /\ Len(calls) < MaxCalls
    /\ NumberGenerated(generate_invoice_number(invoice, clock))
    /\ UNCHANGED <<routeVars, input, oid, clock>>

\* The effect of an assignment to a field of the invoice
Assigned(name, r) ==
    /\ invoice' = r.value
    /\ result' = Result("setattr", name, r.ok, r.error, r.value, None, 0)

\* invoice.invoice_number = value, by any holder of the object
AssignInvoiceNumber ==
    /\ invoice # NoInvoice
    /\ \E value \in {NoNumber, SuppliedNumber, _generate_invoice_number(2, 12345698)} :
         Assigned("invoice_number", SetAttr(invoice, "invoice_number", value))
    /\ UNCHANGED <<routeVars, input, oid, calls, clock>>

\* Time passes.
Tick ==
    /\ clock < MaxClock
    /\ clock' = clock + 1
    /\ UNCHANGED <<routeVars, input, invoice, oid, result, calls>>

InitAlloc == InitObject /\ input \in AllocInputs

NextAlloc ==
    \/ Construct
    \/ GenerateInvoice
    \/ GenerateInvoiceNumber
    \/ AssignInvoiceNumber
    \/ Tick

SpecAlloc == InitAlloc /\ [][NextAlloc]_vars

\* The effect of a validate_tax_type call that ended with `r`
TaxTypeValidated(r) ==
    result' = Result("validate_tax_type",
                     CustomerState(invoice.customer_details),
                     r.ok, r.error, invoice, r.value, 0)

\* tax_type = invoice.validate_tax_type()
ValidateTaxType ==
    /\ invoice # NoInvoice
    /\ TaxTypeValidated(validate_tax_type(invoice))
    /\ UNCHANGED <<routeVars, input, invoice, oid, calls, clock>>

\* invoice.customer_details['state'] = value, or del
\* invoice.customer_details['state']: the dict is changed in place, which no
\* validator sees.
MutateCustomerDetails ==
    /\ invoice # NoInvoice
    /\ \E state \in States, present \in BOOLEAN :
         invoice' = [invoice EXCEPT !.customer_details =
                        Customer(IF present THEN @.keys \cup {"state"}
                                 ELSE @.keys \ {"state"}, state)]
    /\ result' = Result("customer_details", "state", TRUE, NoError, invoice', None, 0)
    /\ UNCHANGED <<routeVars, input, oid, calls, clock>>

InitTotals == InitObject /\ input \in TotalsInputs

NextTotals ==
    \/ Construct
    \/ GenerateInvoice
    \/ ValidateTaxType
    \/ MutateCustomerDetails

SpecTotals == InitTotals /\ [][NextTotals]_vars

\* Line-item lists of the generation runs: none, the test's item, the test's
\* item with one in another currency after it, one in another currency only
GenerateItems ==
    {<<>>, <<Item(1000, 1, "USD")>>,
     <<Item(1000, 1, "USD"), Item(1, 25, "INR")>>, <<Item(1, 25, "INR")>>}

\* The inputs of the generation runs
GenerateInputs ==
    {[TEST_INVOICE_DATA EXCEPT !.status = st,
                               !.invoice_number = n,
                               !.tax_type = tt,
                               !.line_items = items,
                               !.customer_details = Customer(REQUIRED_FIELDS, cs)] :
        st \in {"DRAFT", "PAID", "BOGUS"},
        n \in {NoNumber, EmptyNumber, SuppliedNumber},
        tt \in {None, "GST"},
        items \in GenerateItems,
        cs \in {"Maharashtra", "Karnataka", ""}}

InitGenerate == InitObject /\ input \in GenerateInputs

NextGenerate ==
    \/ Construct
    \/ GenerateInvoice
    \/ Tick

SpecGenerate == InitGenerate /\ [][NextGenerate]_vars

\* The inputs of the customer runs: customer_details with any of the
\* required keys missing
CustomerInputs ==
    {[TEST_INVOICE_DATA EXCEPT !.line_items = items,
                               !.customer_details = Customer(keys, cs)] :
        keys \in SUBSET REQUIRED_FIELDS,
        cs \in {"Maharashtra", "Karnataka", ""},
        items \in {<<>>, <<Item(1000, 1, "USD")>>}}

InitCustomer == InitObject /\ input \in CustomerInputs

NextCustomer ==
    \/ Construct
    \/ GenerateInvoice
    \/ Tick

SpecCustomer == InitCustomer /\ [][NextCustomer]_vars

\* CURRENCY_FORMATS of the test suite: the decimals of each currency
CURRENCY_FORMATS == [USD |-> 2, INR |-> 2, IDR |-> 0]

\* The values a caller can supply for the fields the service computes
SuppliedAmounts == {0, 999}

SuppliedTaxTypes == {None, "GST", "IGST", "VAT"}

SuppliedStatuses == {"DRAFT", "PAID"}

\* The inputs of the payload runs: test_multi_currency's data in each
\* currency, with values supplied for the computed fields
PayloadInputs ==
    {[TEST_INVOICE_DATA EXCEPT !.currency_code = c,
                               !.line_items = <<Item(1000, p, c)>>,
                               !.customer_details = Customer(REQUIRED_FIELDS, cs),
                               !.subtotal = a, !.tax_amount = a,
                               !.total_amount = a,
                               !.tax_type = tt, !.status = st] :
        c \in SUPPORTED_CURRENCIES, p \in {1, 25},
        cs \in {"Maharashtra", "Karnataka"},
        a \in SuppliedAmounts, tt \in SuppliedTaxTypes, st \in SuppliedStatuses}

InitPayload == InitObject /\ input \in PayloadInputs

NextPayload ==
    \/ Construct
    \/ GenerateInvoice
    \/ Tick

SpecPayload == InitPayload /\ [][NextPayload]_vars

\* The most status changes followed on one invoice
MaxSteps == 4

\* The statuses a holder asks for
Targets == INVOICE_STATUSES \cup {"BOGUS"}

\* The status change without its guard: the status is assigned whatever the
\* current status is.
GuardedStatus_Unguarded(self, g, new_status) ==
    SetAttr(self, "status", new_status)

\* if not invoice.validate_state_transition(status): raise ...
\* invoice.status = status
\* with `g` the outcome of the guard: the assignment runs only after the
\* guard returned True.
GuardedStatus(self, g, new_status) ==
    IF Raised(g.error) \/ ~g.value
    THEN [ok |-> FALSE, error |-> g.error, value |-> self]
    ELSE SetAttr(self, "status", new_status)

\* The status changes of the invoice held, oldest first
StatusPath == SelectSeq(calls, LAMBDA c : c.api = "status")

\* The effect of a guarded status change asked for `new_status` that ended
\* with `r`
Transitioned(new_status, r) ==
    /\ invoice' = r.value
    /\ result' = Result("status", new_status, r.ok, r.error, r.value, None, 0)
    /\ calls' = IF r.ok
                THEN Append(calls, [api |-> "status", oid |-> oid, uuid |-> 0,
                                    from |-> invoice.status,
                                    to |-> r.value.status])
                ELSE calls

\* A holder of the invoice changes its status behind the guard
Transition ==
    /\ invoice # NoInvoice
    /\ Len(StatusPath) < MaxSteps
    /\ \E new_status \in Targets :
         Transitioned(new_status,
                      GuardedStatus(invoice,
                                    validate_state_transition(invoice, new_status),
                                    new_status))
    /\ UNCHANGED <<routeVars, input, oid, clock>>

\* The inputs of the lifecycle runs
LifecycleInputs ==
    {[TEST_INVOICE_DATA EXCEPT !.line_items = items,
                               !.status = st,
                               !.customer_details = Customer(REQUIRED_FIELDS, cs)] :
        items \in {<<Item(1000, 1, "USD")>>,
                   <<Item(1000, 1, "USD"), Item(1, 25, "USD")>>},
        st \in {"DRAFT", "PAID"},
        cs \in {"Maharashtra", "Karnataka", ""}}

InitLifecycle == InitObject /\ input \in LifecycleInputs

\* One invoice is generated and followed through its statuses
NextLifecycle ==
    \/ invoice = NoInvoice /\ GenerateInvoice
    \/ Transition

SpecLifecycle == InitLifecycle /\ [][NextLifecycle]_vars

\* The inputs of the object runs: the test's data, with a customer state or
\* an empty one, and a status of the set or not
ObjectInputs ==
    {[TEST_INVOICE_DATA EXCEPT !.status = st,
                               !.customer_details = Customer(REQUIRED_FIELDS, cs)] :
        st \in {"DRAFT", "BOGUS"}, cs \in {"Maharashtra", "Karnataka", ""}}

\* The raw line items of the object runs
LineItemInputs ==
    {[quantity |-> q, unit_price |-> p, amount |-> a, currency_code |-> c] :
        q \in (0..MaxQuantity) \cup {1000}, p \in {0, 1, 25, 333},
        a \in {NoAmount, 0, 25, 999}, c \in {"USD", "INR", "EUR"}}

\* The effect of invoice.status = value
StatusAssigned(value, r) ==
    /\ invoice' = r.value
    /\ result' = Result("setattr", "status", r.ok, r.error, r.value, value, 0)

\* invoice.status = value, by any holder of the object
AssignStatus ==
    /\ invoice # NoInvoice
    /\ \E value \in {"PAID", "CANCELLED", "BOGUS"} :
         StatusAssigned(value, SetAttr(invoice, "status", value))
    /\ UNCHANGED <<routeVars, input, oid, calls, clock>>

\* invoice.currency_code = value
AssignCurrency ==
    /\ invoice # NoInvoice
    /\ \E value \in {"USD", "INR", "EUR"} :
         Assigned("currency_code", SetAttr(invoice, "currency_code", value))
    /\ UNCHANGED <<routeVars, input, oid, calls, clock>>

\* invoice.line_items = value
AssignLineItems ==
    /\ invoice # NoInvoice
    /\ \E value \in {<<Item(1, 25, "INR")>>} :
         Assigned("line_items", SetAttr(invoice, "line_items", value))
    /\ UNCHANGED <<routeVars, input, oid, calls, clock>>

\* The effect of invoice.line_items.append(item): the list is changed in
\* place, which no validator of the invoice sees.
Appended(made) ==
    /\ made.ok
    /\ invoice' = [invoice EXCEPT !.line_items = Append(@, made.value)]
    /\ result' = Result("line_items.append", None, TRUE, NoError, invoice',
                        None, 0)

\* invoice.line_items.append(LineItem(**raw))
AppendLineItem ==
    /\ invoice # NoInvoice
    /\ Len(invoice.line_items) < MaxItems
    /\ \E raw \in {Item(1, 25, "USD"), Item(1, 25, "INR")} :
         Appended(LineItem_init(raw))
    /\ UNCHANGED <<routeVars, input, oid, calls, clock>>

\* invoice.line_items[0].<name> = value.  LineItem has no Config: the
\* assignment stores the value, no validator runs, and the invoice that holds
\* the item sees nothing.
SetItemField ==
    /\ invoice # NoInvoice
    /\ invoice.line_items # <<>>
    /\ \E name \in {"quantity", "unit_price", "amount"}, value \in {2, 999} :
         /\ invoice' = [invoice EXCEPT !.line_items[1][name] = value]
         /\ result' = Result("item.setattr", name, TRUE, NoError, invoice',
                             None, value)
    /\ UNCHANGED <<routeVars, input, oid, calls, clock>>

\* The effect of a _calculate_invoice_totals call that ended with `r`
TotalsCalculated(r) ==
    /\ invoice' = r.value
    /\ result' = Result("_calculate_invoice_totals", None, r.ok, r.error,
                        r.value, None, 0)

\* invoice_generator._calculate_invoice_totals(invoice)
CalculateInvoiceTotals ==
    /\ invoice # NoInvoice
    /\ TotalsCalculated(_calculate_invoice_totals(invoice))
    /\ UNCHANGED <<routeVars, input, oid, calls, clock>>

\* The effect of a calculate_tax call that ended with `r`
TaxCalculated(r) ==
    result' = Result("calculate_tax", None, r.ok, r.error, invoice, None,
                     r.amount)

\* invoice_generator.calculate_tax(invoice)
CalculateTax ==
    /\ invoice # NoInvoice
    /\ TaxCalculated(calculate_tax(invoice))
    /\ UNCHANGED <<routeVars, input, invoice, oid, calls, clock>>

\* The effect of LineItem(**raw): the item made is in `value`, the amount
\* the input supplied in `amount`.
LineItemCreated(raw, made) ==
    result' = Result("LineItem", None, made.ok, made.error, made.value, None,
                     raw.amount)

\* item = LineItem(**raw)
CreateLineItem ==
    /\ \E raw \in LineItemInputs : LineItemCreated(raw, LineItem_init(raw))
    /\ UNCHANGED <<routeVars, input, invoice, oid, calls, clock>>

InitMutation == InitObject /\ input \in ObjectInputs

NextMutation ==
    \/ Construct
    \/ AssignStatus
    \/ AssignCurrency
    \/ AssignLineItems
    \/ AppendLineItem
    \/ SetItemField
    \/ CalculateInvoiceTotals
    \/ CalculateTax

SpecMutation == InitMutation /\ [][NextMutation]_vars

InitLineItem == InitObject /\ input = TEST_INVOICE_DATA

NextLineItem == CreateLineItem

SpecLineItem == InitLineItem /\ [][NextLineItem]_vars

\* The inputs of the document runs: with a number, with none or an empty
\* one, with a line item or none
DocumentInputs ==
    {[TEST_INVOICE_DATA EXCEPT !.invoice_number = n, !.line_items = items,
                               !.tax_type = tt] :
        n \in {NoNumber, EmptyNumber, SuppliedNumber},
        items \in {<<>>, <<Item(1000, 1, "USD")>>},
        tt \in {None, "GST"}}

\* The record of a collaborator's call, in the shape of the log
CollaboratorCall(c, uuid) ==
    [api |-> c.api, oid |-> oid,
     before |-> invoice.invoice_number, after |-> invoice.invoice_number,
     returned |-> c.returned, ok |-> c.ok,
     drew |-> c.api = "store_document",
     uuid |-> IF c.api = "store_document" THEN uuid ELSE 0,
     period |-> strftime_Ym(clock)]

\* The effect of a generate_pdf_document call that ended with `r`
DocumentGenerated(r, uuid) ==
    /\ Len(calls) + Len(r.invoked) <= MaxCalls
    /\ Len(r.invoked) < 2 => uuid = CHOOSE u \in UuidInts \ Drawn : TRUE
    /\ calls' = calls \o [i \in 1..Len(r.invoked) |->
                            CollaboratorCall(r.invoked[i], uuid)]
    /\ result' = Result("generate_pdf_document", None, r.ok, r.error, invoice,
                        r.returned, 0)

\* document_url = invoice_generator.generate_pdf_document(invoice)
GeneratePdfDocument ==
    /\ invoice # NoInvoice
    /\ \E rendered \in BOOLEAN, stored \in BOOLEAN, uuid \in UuidInts \ Drawn :
         DocumentGenerated(generate_pdf_document(invoice, rendered, stored, uuid),
                           uuid)
    /\ UNCHANGED <<routeVars, input, invoice, oid, clock>>

InitDocument == InitObject /\ input \in DocumentInputs

NextDocument ==
    \/ Construct
    \/ AssignInvoiceNumber
    \/ GeneratePdfDocument

SpecDocument == InitDocument /\ [][NextDocument]_vars

(***************************************************************************)
(* api/routes.py: PATCH /{invoice_id}/status.  The helpers of the routes   *)
(* (token validation, permissions, the store, the notifier) live outside   *)
(* this service; they are the collaborators of the external interfaces:    *)
(* Store get / put, Notifier notify (fire-and-forget), Authorizer.         *)
(***************************************************************************)
InvoiceIds == 1..MaxInvoices

Requests == 1..MaxRequests

\* An invoice the service generated, as the store holds it
GeneratedInvoice == generate_invoice(TEST_INVOICE_DATA, 0, 12345698).value

\* The invoices a store can hold: generated ones, in any status of the
\* lifecycle
StoredInvoices == {[GeneratedInvoice EXCEPT !.status = s] : s \in INVOICE_STATUSES}

NoResponse == [code |-> 0, detail |-> None, from |-> None, to |-> None]

\* HTTPException(status_code, detail); from / to are the values the detail
\* interpolates
HTTPException(status_code, detail, from, to) ==
    [code |-> status_code, detail |-> detail, from |-> from, to |-> to]

\* except Exception as e: raise HTTPException(500, "Internal server error")
ExceptException(e) ==
    HTTPException(500, "Internal server error", None, None)

NoGuard == [called |-> FALSE, ok |-> FALSE, value |-> FALSE, error |-> NoError]

\* A request slot: the route that took the request, what the permission
\* check of the route answers for its principal, the locals of the handler,
\* the store and core operations the handler has run, and why it failed.
IdleRequest ==
    [pc |-> "idle", route |-> None, permitted |-> FALSE,
     invoice_id |-> 0, status |-> None,
     read |-> NoInvoice, checked |-> NoInvoice, invoice |-> NoInvoice,
     guard |-> NoGuard, ops |-> <<>>, cause |-> None,
     response |-> NoResponse]

\* The request ends with the response the handler raises or returns
Respond(r, response) ==
    req' = [req EXCEPT ![r].pc = "done", ![r].response = response]

\* Store.get: the invoice stored under the id, or nothing
get_invoice_from_db(invoice_id) == db[invoice_id]

\* Store.put: the store with the invoice put under its id
update_invoice_in_db(invoice_id, inv) == [db EXCEPT ![invoice_id] = inv]

\* One worker handles the requests, one after the other: no other worker
\* has taken a request
Serial(r) == \A q \in Requests \ {r} : req[q].pc = "idle"

\* A request arrives (the locals of the one before it are gone).
\* claims = validate_token(...); if not has_invoice_update_permission(claims):
\* raise HTTPException(403): raised inside the try, so the handler's
\* `except Exception` turns it into a 500.
UpdateAuth(r) ==
    /\ req[r].pc \in {"idle", "done"}
    /\ \E invoice_id \in InvoiceIds, status \in INVOICE_STATUSES,
          permitted \in BOOLEAN :
         req' = [req EXCEPT
                   ![r] = [IdleRequest EXCEPT
                             !.route = "update_invoice_status",
                             !.permitted = permitted,
                             !.cause = IF permitted THEN None ELSE "permission",
                             !.invoice_id = invoice_id,
                             !.status = status,
                             !.pc = IF permitted THEN "get" ELSE "done",
                             !.response =
                                 IF permitted THEN NoResponse
                                 ELSE ExceptException(
                                        HTTPException(403, "Insufficient permissions",
                                                      None, None))]]
    /\ UNCHANGED <<db, notes, objVars>>

\* invoice = await get_invoice_from_db(invoice_id); if not invoice: raise
\* HTTPException(404)
UpdateGet(r) ==
    /\ req[r].pc = "get"
    /\ IF get_invoice_from_db(req[r].invoice_id) = NoInvoice
       THEN Respond(r, ExceptException(
                         HTTPException(404, "Invoice not found", None, None)))
       ELSE req' = [req EXCEPT
                      ![r].pc = "validate",
                      ![r].read = get_invoice_from_db(req[r].invoice_id),
                      ![r].invoice = get_invoice_from_db(req[r].invoice_id)]
    /\ UNCHANGED <<db, notes, objVars>>

\* invoice.status = status, after the guard `g` accepted
UpdateAssigned(r, g, set) ==
    req' = [req EXCEPT
              ![r].guard = [called |-> TRUE, ok |-> g.ok, value |-> g.value,
                            error |-> g.error],
              ![r].checked = g.self,
              ![r].invoice = set.value,
              ![r].pc = IF set.ok THEN "store" ELSE "done",
              ![r].response = IF set.ok THEN NoResponse
                              ELSE ExceptException(set.error)]

\* The guard `g` did not accept: it raised, or it returned False and the
\* handler raises HTTPException(400); either is raised inside the try.
UpdateRefused(r, g) ==
    req' = [req EXCEPT
              ![r].guard = [called |-> TRUE, ok |-> g.ok, value |-> g.value,
                            error |-> g.error],
              ![r].checked = g.self,
              ![r].invoice = g.self,
              ![r].pc = "done",
              ![r].response =
                  IF Raised(g.error) THEN ExceptException(g.error)
                  ELSE ExceptException(
                         HTTPException(400, "Invalid transition",
                                       g.self.status, req[r].status))]

\* The handler after the guard was called, with the guard's exception
\* swallowed: the status is assigned whatever the guard said.
UpdateChecked_Unguarded(r, g) ==
    UpdateAssigned(r, g, SetAttr(g.self, "status", req[r].status))

\* if not invoice.validate_state_transition(status): raise HTTPException(400)
\* invoice.status = status
UpdateChecked(r, g) ==
    IF Raised(g.error) \/ ~g.value
    THEN UpdateRefused(r, g)
    ELSE UpdateAssigned(r, g, SetAttr(g.self, "status", req[r].status))

\* The code between the two awaits: the guard, then the assignment
UpdateValidate(r) ==
    /\ req[r].pc = "validate"
    /\ UpdateChecked(r, validate_state_transition(req[r].invoice, req[r].status))
    /\ UNCHANGED <<db, notes, objVars>>

\* updated_invoice = await update_invoice_in_db(invoice): Store.put, which
\* returns the invoice stored or fails
UpdateStore(r) ==
    /\ req[r].pc = "store"
    /\ \/ /\ db' = update_invoice_in_db(req[r].invoice_id, req[r].invoice)
          /\ req' = [req EXCEPT ![r].pc = "notify"]
       \/ /\ Respond(r, ExceptException(Error("StoreError", "put", None, None)))
          /\ db' = db
    /\ UNCHANGED <<notes, objVars>>

\* A notifier whose failure reaches the caller as an exception.
Notifier_notify_Raising(delivered) ==
    [ok |-> delivered, delivered |-> delivered,
     error |-> IF delivered THEN NoError
               ELSE Error("NotifierError", "notify", None, None)]

\* Notifier.notify: fire-and-forget; it delivers or fails, and a failure is
\* logged, not propagated.
Notifier_notify(delivered) ==
    [ok |-> TRUE, delivered |-> delivered, error |-> NoError]

\* notify_invoice_status_changed(invoice)
notify_invoice_status_changed(delivered) == Notifier_notify(delivered)

\* notify_invoice_created(invoice)
notify_invoice_created(delivered) == Notifier_notify(delivered)

\* The notifications that can still be delivered
Deliveries == IF Len(notes) < MaxNotes THEN BOOLEAN ELSE {FALSE}

\* The handler from the notification `n` on: an exception of the awaited
\* call would be raised inside the try; otherwise `return updated_invoice`.
UpdateNotified(r, n) ==
    /\ notes' = IF n.delivered
                THEN Append(notes, [event |-> "status_changed",
                                    invoice_id |-> req[r].invoice_id,
                                    status |-> req[r].invoice.status])
                ELSE notes
    /\ Respond(r, IF n.ok THEN HTTPException(200, "OK", None, None)
                  ELSE ExceptException(n.error))

\* await notify_invoice_status_changed(updated_invoice); return
\* updated_invoice
UpdateNotify(r) ==
    /\ req[r].pc = "notify"
    /\ \E delivered \in Deliveries :
         UpdateNotified(r, notify_invoice_status_changed(delivered))
    /\ UNCHANGED <<db, objVars>>

(***************************************************************************)
(* api/routes.py: the other routes.  A handler runs in one piece from one  *)
(* await to the next.                                                      *)
(***************************************************************************)
\* A request of `route` arrives at slot r; the permission check of the route,
\* if the route has one, answers `permitted`.
Arrived(route, permitted) ==
    [IdleRequest EXCEPT !.route = route, !.permitted = permitted]

\* The handler ends with `response` because of `cause`
Failed(q, cause, response) ==
    [q EXCEPT !.pc = "done", !.cause = cause, !.response = response]

\* raise HTTPException(status_code=403, detail="Insufficient permissions"),
\* raised inside the try of a handler whose first handler is `except
\* Exception`
Denied(q) ==
    Failed(q, "permission",
           ExceptException(HTTPException(403, "Insufficient permissions",
                                         None, None)))

\* raise HTTPException(status_code=404, detail="Invoice not found"), raised
\* inside the try
NotFound(q) ==
    Failed(q, "not_found",
           ExceptException(HTTPException(404, "Invoice not found", None, None)))

\* claims['sub'], where claims = validate_token(...) is the coroutine of an
\* async def that was not awaited: TypeError, raised inside the try
ClaimsSubscripted(q) ==
    Failed(q, "internal",
           ExceptException(Error("TypeError",
                                 "'coroutine' object is not subscriptable",
                                 None, None)))

\* get_invoice up to `await get_invoice_from_db(invoice_id)`
GetAuth(r) ==
    /\ req[r].pc \in {"idle", "done"}
    /\ \E invoice_id \in InvoiceIds, permitted \in BOOLEAN :
         req' = [req EXCEPT ![r] =
                   IF permitted
                   THEN [Arrived("get_invoice", permitted) EXCEPT
                            !.invoice_id = invoice_id, !.pc = "get_read"]
                   ELSE Denied([Arrived("get_invoice", permitted) EXCEPT
                                   !.invoice_id = invoice_id])]
    /\ UNCHANGED <<db, notes, objVars>>

\* get_invoice from the invoice read on: 404 if there is none, else the log
\* line that subscripts claims
GetRead(r) ==
    /\ req[r].pc = "get_read"
    /\ req' = [req EXCEPT ![r] =
                 IF get_invoice_from_db(req[r].invoice_id) = NoInvoice
                 THEN NotFound([req[r] EXCEPT !.ops = <<"store.get">>])
                 ELSE ClaimsSubscripted(
                        [req[r] EXCEPT
                            !.ops = <<"store.get">>,
                            !.read = get_invoice_from_db(req[r].invoice_id),
                            !.invoice = get_invoice_from_db(req[r].invoice_id)])]
    /\ UNCHANGED <<db, notes, objVars>>

\* The uuid4 the routes' calls of the service draw: the one GeneratedInvoice
\* was made with
RouteUuids == {12345698}

\* The payloads of create_invoice: the test's data, the same without a
\* customer state, with a tax type outside TAX_RATES, with no line item
CreateInputs ==
    {TEST_INVOICE_DATA,
     [TEST_INVOICE_DATA EXCEPT !.customer_details = Customer(REQUIRED_FIELDS, "")],
     [TEST_INVOICE_DATA EXCEPT !.tax_type = "VAT"],
     [TEST_INVOICE_DATA EXCEPT !.line_items = <<>>]}

\* except ValueError as e: raise HTTPException(status_code=400,
\* detail=str(e)); except Exception: 500
CreateExcept(e) ==
    IF IsValueError(e) THEN HTTPException(400, "str(e)", e.from, e.to)
    ELSE ExceptException(e)

\* create_invoice from generate_invoice's outcome `made` on, up to `await
\* store_invoice(invoice)`
CreateGenerated(q, made) ==
    IF ~made.ok
    THEN Failed([q EXCEPT !.ops = <<"generate">>], "validation",
                CreateExcept(made.error))
    ELSE [q EXCEPT !.ops = <<"generate">>, !.invoice = made.value,
                   !.pc = "create_store"]

\* create_invoice up to `await store_invoice(invoice)`: the permission check
\* (its HTTPException is not a ValueError), then generate_invoice
CreateAuth(r) ==
    /\ req[r].pc \in {"idle", "done"}
    /\ \E data \in CreateInputs, permitted \in BOOLEAN, uuid \in RouteUuids :
         req' = [req EXCEPT ![r] =
                   IF permitted
                   THEN CreateGenerated(Arrived("create_invoice", permitted),
                                        generate_invoice(data, clock, uuid))
                   ELSE Denied(Arrived("create_invoice", permitted))]
    /\ UNCHANGED <<db, notes, objVars>>

\* stored_invoice = await store_invoice(invoice): Store.put under a new id,
\* which returns the invoice stored or fails
CreateStore(r) ==
    /\ req[r].pc = "create_store"
    /\ \/ \E invoice_id \in InvoiceIds :
            /\ db[invoice_id] = NoInvoice
            /\ db' = update_invoice_in_db(invoice_id, req[r].invoice)
            /\ req' = [req EXCEPT ![r].pc = "create_notify",
                                  ![r].invoice_id = invoice_id,
                                  ![r].ops = Append(@, "store.put")]
       \/ /\ req' = [req EXCEPT ![r] =
                       Failed([req[r] EXCEPT !.ops = Append(@, "store.put")],
                              "collaborator",
                              CreateExcept(Error("StoreError", "put", None, None)))]
          /\ db' = db
    /\ UNCHANGED <<notes, objVars>>

\* create_invoice from the notification `n` on: `return stored_invoice`
\* (status_code=201), unless the awaited call raised
CreateNotified(r, n) ==
    /\ notes' = IF n.delivered
                THEN Append(notes, [event |-> "created",
                                    invoice_id |-> req[r].invoice_id,
                                    status |-> req[r].invoice.status])
                ELSE notes
    /\ req' = [req EXCEPT ![r] =
                 IF n.ok
                 THEN [req[r] EXCEPT !.pc = "done",
                                     !.ops = Append(@, "notify"),
                                     !.response = HTTPException(201, "Created",
                                                                None, None)]
                 ELSE Failed([req[r] EXCEPT !.ops = Append(@, "notify")],
                             "collaborator", CreateExcept(n.error))]

\* await notify_invoice_created(stored_invoice); return stored_invoice
CreateNotify(r) ==
    /\ req[r].pc = "create_notify"
    /\ \E delivered \in Deliveries :
         CreateNotified(r, notify_invoice_created(delivered))
    /\ UNCHANGED <<db, objVars>>

\* generate_pdf up to `await get_invoice_from_db(invoice_id)`
PdfAuth(r) ==
    /\ req[r].pc \in {"idle", "done"}
    /\ \E invoice_id \in InvoiceIds, permitted \in BOOLEAN :
         req' = [req EXCEPT ![r] =
                   IF permitted
                   THEN [Arrived("generate_pdf", permitted) EXCEPT
                            !.invoice_id = invoice_id, !.pc = "pdf_read"]
                   ELSE Denied([Arrived("generate_pdf", permitted) EXCEPT
                                   !.invoice_id = invoice_id])]
    /\ UNCHANGED <<db, notes, objVars>>

\* pdf_url = await invoice_generator.generate_pdf_document(invoice):
\* generate_pdf_document is a plain function, so it runs, and what it returns
\* (a str) is then awaited: TypeError.  Whatever is raised is raised inside
\* the try.
PdfDocument(q, doc) ==
    IF doc.ok
    THEN Failed(q, "internal",
                ExceptException(Error("TypeError",
                                      "object str can't be used in 'await' expression",
                                      None, None)))
    ELSE Failed(q, IF doc.invoked = <<>> THEN "validation" ELSE "collaborator",
                ExceptException(doc.error))

\* generate_pdf from the invoice read on
PdfGenerate(r) ==
    /\ req[r].pc = "pdf_read"
    /\ \E rendered \in BOOLEAN, stored \in BOOLEAN, uuid \in RouteUuids :
         req' = [req EXCEPT ![r] =
                   IF get_invoice_from_db(req[r].invoice_id) = NoInvoice
                   THEN NotFound([req[r] EXCEPT !.ops = <<"store.get">>])
                   ELSE PdfDocument(
                          [req[r] EXCEPT
                              !.ops = <<"store.get", "render">>,
                              !.read = get_invoice_from_db(req[r].invoice_id),
                              !.invoice = get_invoice_from_db(req[r].invoice_id)],
                          generate_pdf_document(
                              get_invoice_from_db(req[r].invoice_id),
                              rendered, stored, uuid))]
    /\ UNCHANGED <<db, notes, objVars>>

\* list_invoices up to `await get_invoices_from_db(...)`: the token is
\* validated and the filters are built; no permission check is made.
ListAuth(r) ==
    /\ req[r].pc \in {"idle", "done"}
    /\ \E permitted \in BOOLEAN :
         req' = [req EXCEPT ![r] =
                   [Arrived("list_invoices", permitted) EXCEPT !.pc = "list_read"]]
    /\ UNCHANGED <<db, notes, objVars>>

\* list_invoices from the invoices read on: the log line that subscripts
\* claims
ListRead(r) ==
    /\ req[r].pc = "list_read"
    /\ req' = [req EXCEPT ![r] =
                 ClaimsSubscripted([req[r] EXCEPT !.ops = <<"store.list">>])]
    /\ UNCHANGED <<db, notes, objVars>>

\* The invoices the store of the routes can hold: generated ones in any
\* status, and one that has no number yet
ApiStoredInvoices ==
    StoredInvoices \cup {[GeneratedInvoice EXCEPT !.invoice_number = NoNumber]}

ObjectIdle ==
    /\ input = TEST_INVOICE_DATA
    /\ invoice = NoInvoice
    /\ oid = 0
    /\ result = NoResult
    /\ calls = <<>>
    /\ clock = 0

InitRoutes ==
    /\ db \in [InvoiceIds -> StoredInvoices \cup {NoInvoice}]
    /\ req = [r \in Requests |-> IdleRequest]
    /\ notes = <<>>
    /\ ObjectIdle

\* Status updates handled one after the other
NextRoutes ==
    \E r \in Requests :
        \/ Serial(r) /\ UpdateAuth(r)
        \/ UpdateGet(r)
        \/ UpdateValidate(r)
        \/ UpdateStore(r)
        \/ UpdateNotify(r)

SpecRoutes == InitRoutes /\ [][NextRoutes]_vars

InitApi ==
    /\ db \in [InvoiceIds -> ApiStoredInvoices \cup {NoInvoice}]
    /\ req = [r \in Requests |-> IdleRequest]
    /\ notes = <<>>
    /\ ObjectIdle

\* The routes, their requests handled one after the other
NextApi ==
    \E r \in Requests :
        \/ Serial(r) /\ GetAuth(r)
        \/ GetRead(r)
        \/ Serial(r) /\ CreateAuth(r)
        \/ CreateStore(r)
        \/ CreateNotify(r)
        \/ Serial(r) /\ PdfAuth(r)
        \/ PdfGenerate(r)
        \/ Serial(r) /\ ListAuth(r)
        \/ ListRead(r)
        \/ Serial(r) /\ UpdateAuth(r)
        \/ UpdateGet(r)
        \/ UpdateValidate(r)
        \/ UpdateStore(r)
        \/ UpdateNotify(r)

SpecApi == InitApi /\ [][NextApi]_vars

\* Two status updates, each taken once, their steps interleaved
RaceRequests == 1..(MaxRequests + 1)

InitRace ==
    /\ db \in [InvoiceIds -> StoredInvoices \cup {NoInvoice}]
    /\ req = [r \in RaceRequests |-> IdleRequest]
    /\ notes = <<>>
    /\ ObjectIdle

NextRace ==
    \E r \in RaceRequests :
        \/ req[r].pc = "idle" /\ UpdateAuth(r)
        \/ UpdateGet(r)
        \/ UpdateValidate(r)
        \/ UpdateStore(r)
        \/ UpdateNotify(r)

SpecRace == InitRace /\ [][NextRace]_vars

(***************************************************************************)
(* Invoice numbers                                                         *)
(***************************************************************************)
CallIndexes == 1..Len(calls)

\* C3: the invoice numbers that generate_invoice calls return for inputs
\* carrying no invoice number are pairwise distinct.
C3_GeneratedNumbersDistinct ==
    \A i, j \in CallIndexes :
        (/\ i < j
         /\ calls[i].api = "generate_invoice" /\ calls[j].api = "generate_invoice"
         /\ calls[i].ok /\ calls[j].ok
         /\ calls[i].before = NoNumber /\ calls[j].before = NoNumber)
        => calls[i].returned # calls[j].returned

\* C4: two different invoices that lack a number and call
\* Invoice.generate_invoice_number in the same period never receive the
\* same invoice number.
C4_ModelNumbersDistinct ==
    \A i, j \in CallIndexes :
        (/\ i < j
         /\ calls[i].api = "generate_invoice_number"
         /\ calls[j].api = "generate_invoice_number"
         /\ calls[i].oid # calls[j].oid
         /\ calls[i].ok /\ calls[j].ok
         /\ calls[i].before = NoNumber /\ calls[j].before = NoNumber
         /\ calls[i].period = calls[j].period)
        => calls[i].returned # calls[j].returned

\* C5: an allocation call (Invoice.generate_invoice_number, or the allocation
\* step of generate_invoice) on an invoice whose invoice_number is set (a
\* non-empty string) returns that number, leaves the invoice's number as it
\* was and draws no new identifier.
C5_AllocationIdempotent ==
    \A i \in CallIndexes :
        Truthy(calls[i].before)
        => /\ calls[i].returned = calls[i].before
           /\ calls[i].after = calls[i].before
           /\ ~calls[i].drew

\* C5 happens: both allocators were called on an invoice that had a number,
\* one of them on an invoice it had numbered itself.
C5_Witness ==
    /\ \E i \in CallIndexes :
         calls[i].api = "generate_invoice" /\ Truthy(calls[i].before)
    /\ \E i, j \in CallIndexes :
         /\ i < j
         /\ calls[i].api = "generate_invoice_number"
         /\ calls[j].api = "generate_invoice_number"
         /\ calls[i].oid = calls[j].oid
         /\ ~Truthy(calls[i].before)
         /\ calls[j].before = calls[i].returned

\* C6: the invoice_number of an Invoice object, once it is not None, never
\* takes another value, whatever operation runs.
C6_NumberNeverReassigned ==
    [][(/\ invoice # NoInvoice
        /\ oid' = oid
        /\ invoice.invoice_number # NoNumber)
       => invoice'.invoice_number = invoice.invoice_number]_vars

(***************************************************************************)
(* Status lifecycle                                                        *)
(***************************************************************************)
\* The transition table of the lifecycle
TransitionTable ==
    {<<"DRAFT", "PENDING">>, <<"PENDING", "PAID">>, <<"PENDING", "OVERDUE">>,
     <<"PENDING", "CANCELLED">>, <<"OVERDUE", "PAID">>,
     <<"OVERDUE", "CANCELLED">>}

Terminal == {"PAID", "CANCELLED"}

\* The (current, target) pair a request put to the guard
Pair(r) == <<req[r].read.status, req[r].status>>

\* C1: the guard accepts a pair (current, target) of statuses if and only if
\* the pair is in the transition table; every other pair, every
\* self-transition included, is rejected.
C1_GuardAcceptsExactlyTable ==
    \A r \in Requests :
        req[r].guard.called
        => ((req[r].guard.ok /\ req[r].guard.value) <=> Pair(r) \in TransitionTable)

\* The notifier was told that invoice `i` moved to status `st`
Notified(i, st) ==
    \E n \in 1..Len(notes) : notes[n].invoice_id = i /\ notes[n].status = st

\* C1 happens: the guard had accepted DRAFT -> PENDING for an invoice (the
\* only edge into PENDING), and then rejected PENDING -> PENDING for it.
C1_Witness ==
    \E r \in Requests :
        /\ Notified(req[r].invoice_id, "PENDING")
        /\ req[r].guard.called /\ ~req[r].guard.ok
        /\ Pair(r) = <<"PENDING", "PENDING">>

\* C2: a status update that finds the invoice PAID or CANCELLED never
\* succeeds, whatever status it asks for, and the stored status of an invoice
\* that is PAID or CANCELLED never changes.
C2_TerminalAbsorbing ==
    /\ [](\A r \in Requests :
            (req[r].read # NoInvoice /\ req[r].read.status \in Terminal)
            => /\ req[r].pc \notin {"store", "notify"}
               /\ req[r].response.code # 200)
    /\ [][\A i \in InvoiceIds :
            (db[i] # NoInvoice /\ db[i].status \in Terminal)
            => (db'[i] # NoInvoice /\ db'[i].status = db[i].status)]_vars

\* C2 happens: an update moved the stored invoice to PAID, and a later
\* update of that invoice to PAID was turned down and left it as it was.
C2_Witness ==
    \E r \in Requests :
        /\ Notified(req[r].invoice_id, "PAID")
        /\ req[r].pc = "done" /\ req[r].guard.called
        /\ Pair(r) = <<"PAID", "PAID">>
        /\ req[r].response.code # 200
        /\ db[req[r].invoice_id].status = "PAID"

\* C7: the guard leaves the invoice as it found it; the handler assigns the
\* new status and writes the store only when the guard accepted; a request
\* the guard rejected ends with its in-memory invoice as read, and the step
\* that rejects it leaves the store as it was.
C7_StatusOnlyAfterAccept ==
    /\ [](\A r \in Requests :
            /\ req[r].guard.called => req[r].checked = req[r].read
            /\ (req[r].guard.called /\ ~req[r].guard.ok)
               => /\ req[r].invoice = req[r].read
                  /\ req[r].pc = "done"
                  /\ req[r].response.code # 200
            /\ req[r].invoice # req[r].read => req[r].guard.ok
            /\ req[r].pc \in {"store", "notify"} => req[r].guard.ok)
    /\ [][/\ \A i \in InvoiceIds :
               db'[i] # db[i]
               => \E r \in Requests :
                     /\ req[r].pc = "store" /\ req[r].guard.ok
                     /\ req[r].invoice_id = i
                     /\ db'[i] = req[r].invoice
                     /\ db'[i] = [db[i] EXCEPT !.status = req[r].status]
          /\ (\E r \in Requests :
                 /\ ~req[r].guard.called
                 /\ req'[r].guard.called /\ ~req'[r].guard.ok)
             => db' = db]_vars

\* C7 happens: an update the guard accepted wrote OVERDUE to the store, and
\* a later update the guard rejected left its invoice and the store alone.
C7_Witness ==
    \E r \in Requests :
        /\ Notified(req[r].invoice_id, "OVERDUE")
        /\ req[r].pc = "done" /\ req[r].guard.called /\ ~req[r].guard.ok
        /\ req[r].read.status = "OVERDUE"
        /\ req[r].invoice = req[r].read
        /\ db[req[r].invoice_id] = req[r].read

\* C8: for a pair that is not in the transition table the guard returns
\* False (it does not raise), and the status update ends with the
\* invalid-transition failure (400) that carries the from and the to status.
C8_RejectedPairFails ==
    \A r \in Requests :
        (req[r].guard.called /\ Pair(r) \notin TransitionTable)
        => /\ ~Raised(req[r].guard.error)
           /\ ~req[r].guard.value
           /\ req[r].pc = "done"
              => /\ req[r].response.code = 400
                 /\ req[r].response.from = req[r].read.status
                 /\ req[r].response.to = req[r].status

(***************************************************************************)
(* Totals and tax                                                          *)
(***************************************************************************)
\* The rates, in hundredths
Rate == [GST |-> 18, IGST |-> 18]

\* C9: an invoice that generate_invoice returns has subtotal = the sum of the
\* amounts of its line items, tax_amount = subtotal x rate of its tax type
\* rounded half up to cents (a tie goes up), total_amount = subtotal +
\* tax_amount; 100 line items of 10.00 give the total 1180.00.
C9_TotalsOfGenerated ==
    (result.op = "generate_invoice" /\ result.ok)
    => /\ result.value.subtotal = SumAmounts(result.value.line_items)
       /\ result.value.tax_type \in DOMAIN Rate
       /\ 100 * result.value.tax_amount
             <= Rate[result.value.tax_type] * result.value.subtotal + 50
       /\ Rate[result.value.tax_type] * result.value.subtotal + 50
             < 100 * result.value.tax_amount + 100
       /\ result.value.total_amount
             = result.value.subtotal + result.value.tax_amount
       /\ (/\ Len(result.value.line_items) = 100
           /\ \A i \in 1..100 : result.value.line_items[i].amount = 1000)
          => result.value.total_amount = 118000

\* C9 happens: generate_invoice returned an invoice of two line items whose
\* tax is a tie at half a cent, which went up.
C9_Witness ==
    /\ result.op = "generate_invoice" /\ result.ok
    /\ Len(result.value.line_items) = 2
    /\ (18 * result.value.subtotal) % 100 = 50
    /\ 100 * result.value.tax_amount = 18 * result.value.subtotal + 50
    /\ result.value.total_amount = result.value.subtotal + result.value.tax_amount

\* C10: validate_tax_type returns GST exactly when the customer state is the
\* issuer's state, IGST for any other customer state that is not empty, and
\* raises the customer-state-required error when the state is empty or
\* absent, whatever else the invoice holds.
C10_TaxResolverTable ==
    result.op = "validate_tax_type"
    => /\ result.arg = "Maharashtra"
          => (result.ok /\ result.str = "GST")
       /\ result.arg \notin {"Maharashtra", "", None}
          => (result.ok /\ result.str = "IGST")
       /\ result.arg \in {"", None}
          => /\ ~result.ok
             /\ IsValueError(result.error)
             /\ result.error.msgs
                  = <<"Customer state is required for tax calculation">>
       /\ result.ok => (result.str = "GST" <=> result.arg = "Maharashtra")

\* C10 happens: the resolver was called on an invoice whose customer_details
\* has no state key, and raised.
C10_Witness ==
    /\ result.op = "validate_tax_type"
    /\ "state" \notin invoice.customer_details.keys
    /\ ~result.ok

(***************************************************************************)
(* Generation                                                              *)
(***************************************************************************)
\* The raw input passes the field validators of the model
FieldsValid(data) ==
    /\ data.status \in INVOICE_STATUSES
    /\ data.currency_code \in SUPPORTED_CURRENCIES
    /\ REQUIRED_FIELDS \subseteq data.customer_details.keys
    /\ \A i \in 1..Len(data.line_items) :
          /\ data.line_items[i].quantity > 0
          /\ data.line_items[i].unit_price > 0
          /\ data.line_items[i].currency_code \in SUPPORTED_CURRENCIES

\* The line items of the raw input whose currency is not the invoice's
Offending(data) ==
    {i \in 1..Len(data.line_items) :
        data.line_items[i].currency_code # data.currency_code}

\* C11: an invoice that generate_invoice returns has status DRAFT whatever
\* status the input carried, an invoice number, at least one line item and
\* tax type GST or IGST; customer state Karnataka, USD, one item of 1000 at
\* 0.01 gives IGST, 10.00, 1.80, 11.80, DRAFT.
C11_GeneratedInvoiceShape ==
    (result.op = "generate_invoice" /\ result.ok)
    => /\ result.value.status = "DRAFT"
       /\ result.value.invoice_number # NoNumber
       /\ Truthy(result.value.invoice_number)
       /\ result.value.line_items # <<>>
       /\ result.value.tax_type \in {"GST", "IGST"}
       /\ (/\ input.customer_details.state = "Karnataka"
           /\ input.currency_code = "USD"
           /\ input.line_items = <<Item(1000, 1, "USD")>>)
          => /\ result.value.tax_type = "IGST"
             /\ result.value.subtotal = 1000
             /\ result.value.tax_amount = 180
             /\ result.value.total_amount = 1180

\* C11 happens: generate_invoice returned the invoice of the Karnataka
\* example for an input that carried status PAID and no number.
C11_Witness ==
    /\ result.op = "generate_invoice" /\ result.ok
    /\ input.status = "PAID"
    /\ input.invoice_number = NoNumber
    /\ input.customer_details.state = "Karnataka"
    /\ input.line_items = <<Item(1000, 1, "USD")>>
    /\ result.value.total_amount = 1180

\* C12: tax resolution comes before line-item validation and totals: when
\* the raw input passes the field validation and its customer state is
\* empty, generate_invoice fails with the customer-state-required error as
\* validate_tax_type raised it, also when a line item is in another currency.
C12_TaxErrorFirst ==
    (/\ result.op = "generate_invoice"
     /\ FieldsValid(input)
     /\ ~TruthyStr(CustomerState(input.customer_details)))
    => /\ ~result.ok
       /\ result.error
            = ValueError("Customer state is required for tax calculation")

\* C13: a generate_invoice call that fails has drawn no invoice number.
C13_NoNumberOnFailure ==
    \A i \in CallIndexes :
        (calls[i].api = "generate_invoice" /\ ~calls[i].ok) => ~calls[i].drew

\* C14: generate_invoice on an input that passes the field validation and
\* has a line item in a currency other than the invoice's fails with an
\* error that carries the currency of that item and the currency of the
\* invoice, and returns no invoice.
C14_CurrencyMismatchNamed ==
    (/\ result.op = "generate_invoice"
     /\ FieldsValid(input)
     /\ TruthyStr(CustomerState(input.customer_details))
     /\ Offending(input) # {})
    => /\ ~result.ok
       /\ result.value = NoInvoice
       /\ \E i \in Offending(input) :
             result.error.from = input.line_items[i].currency_code
       /\ result.error.to = input.currency_code

(***************************************************************************)
(* Line items and the invoice object                                       *)
(***************************************************************************)
\* The line items of the invoice
ItemIndexes == 1..Len(invoice.line_items)

\* C15: in every state of a line item of an invoice, its amount is quantity
\* x unit_price (exact in cents, so rounding to cents changes nothing).
C15_AmountAlwaysProduct ==
    invoice # NoInvoice
    => \A i \in ItemIndexes :
          invoice.line_items[i].amount
            = invoice.line_items[i].quantity * invoice.line_items[i].unit_price

\* C16: LineItem(**raw) with a positive quantity q, a positive price p of
\* two decimals and a supported currency succeeds with amount = q x p (in
\* cents), whatever amount raw supplied; q = 1000, p = 0.01 gives 10.00.
C16_AmountAtCreation ==
    (/\ result.op = "LineItem"
     /\ result.value.quantity > 0
     /\ result.value.unit_price > 0
     /\ result.value.currency_code \in SUPPORTED_CURRENCIES)
    => /\ result.ok
       /\ result.value.amount = result.value.quantity * result.value.unit_price
       /\ (result.value.quantity = 1000 /\ result.value.unit_price = 1)
          => result.value.amount = 1000

\* C16 happens: a line item of 1000 at 0.01 was created from an input that
\* supplied the amount 9.99, and its amount is 10.00.
C16_Witness ==
    /\ result.op = "LineItem" /\ result.ok
    /\ result.amount = 999
    /\ result.value.quantity = 1000
    /\ result.value.unit_price = 1
    /\ result.value.amount = 1000

\* C17: in every state of an invoice, every line item's currency code is the
\* invoice's.
C17_ItemCurrencyIsInvoiceCurrency ==
    invoice # NoInvoice
    => \A i \in ItemIndexes :
          invoice.line_items[i].currency_code = invoice.currency_code

\* C18: the status of an invoice is always one of DRAFT, PENDING, PAID,
\* OVERDUE, CANCELLED; constructing with another value fails and makes no
\* invoice, and assigning another value fails and leaves the status as it
\* was.
C18_StatusInSet ==
    /\ [](invoice # NoInvoice => invoice.status \in INVOICE_STATUSES)
    /\ []((result.op = "Invoice" /\ input.status \notin INVOICE_STATUSES)
          => (~result.ok /\ result.value = NoInvoice))
    /\ [][(/\ result'.op = "setattr"
           /\ result'.arg = "status"
           /\ result'.str \notin INVOICE_STATUSES)
          => (~result'.ok /\ invoice'.status = invoice.status)]_vars

\* C18 happens: the status was assigned PAID, then the assignment of a value
\* outside the set was refused and the status is still PAID.
C18_Witness ==
    /\ result.op = "setattr" /\ result.arg = "status"
    /\ result.str = "BOGUS"
    /\ ~result.ok
    /\ invoice.status = "PAID"

\* C19: a _calculate_invoice_totals call that fails leaves subtotal,
\* tax_amount, total_amount and tax_type of the invoice as they were.
C19_NoPartialMutation ==
    [][(result'.op = "_calculate_invoice_totals" /\ ~result'.ok)
       => /\ invoice'.subtotal = invoice.subtotal
          /\ invoice'.tax_amount = invoice.tax_amount
          /\ invoice'.total_amount = invoice.total_amount
          /\ invoice'.tax_type = invoice.tax_type]_vars

(***************************************************************************)
(* Documents                                                               *)
(***************************************************************************)
\* C20: generate_pdf_document on an invoice without an invoice number or
\* without line items fails with the incomplete-invoice error and calls
\* neither the renderer nor the store; on a complete invoice the renderer is
\* called first, the store after it and only when the renderer returned, and
\* the reference returned is the one the store returned.
C20_RenderDocument ==
    [][(result'.op = "generate_pdf_document")
       => IF IncompleteInvoice(invoice)
          THEN /\ ~result'.ok
               /\ result'.error
                    = ValueError("Invoice must be complete before generating PDF")
               /\ calls' = calls
          ELSE /\ Len(calls') > Len(calls)
               /\ SubSeq(calls', 1, Len(calls)) = calls
               /\ calls'[Len(calls) + 1].api = "generate_pdf"
               /\ Len(calls') <= Len(calls) + 2
               /\ Len(calls') = Len(calls) + 2
                  => /\ calls'[Len(calls) + 1].ok
                     /\ calls'[Len(calls) + 2].api = "store_document"
               /\ result'.ok
                  => /\ Len(calls') = Len(calls) + 2
                     /\ calls'[Len(calls) + 2].ok
                     /\ result'.str = calls'[Len(calls) + 2].returned
                     /\ result'.str.url # None]_vars

\* C20 happens: the invoice was made without a number and was given one
\* later; generate_pdf_document returned the URL of the store, the renderer
\* having been called first and the store second.
C20_Witness ==
    /\ result.op = "generate_pdf_document" /\ result.ok
    /\ input.invoice_number = NoNumber
    /\ Len(calls) = 2
    /\ calls[1].api = "generate_pdf" /\ calls[1].ok
    /\ calls[2].api = "store_document" /\ calls[2].ok
    /\ result.str = calls[2].returned
    /\ result.str.key.invoice_number = invoice.invoice_number

(***************************************************************************)
(* Routes                                                                  *)
(***************************************************************************)
\* The requests that have been answered
Answered(route) ==
    {r \in DOMAIN req : req[r].route = route /\ req[r].pc = "done"}

\* C21: the PDF route answers a validation failure (an incomplete invoice)
\* with a response that differs from the one it gives when the renderer or
\* the object store fails.
C21_CollaboratorFailureDistinct ==
    \A r \in Answered("generate_pdf") :
        req[r].cause = "validation"
        => \A rendered \in BOOLEAN, stored \in BOOLEAN :
              ~(rendered /\ stored)
              => PdfDocument(req[r],
                     DocumentRendered(req[r].invoice,
                                      generate_pdf(req[r].invoice, rendered),
                                      12345698, stored)).response
                   # req[r].response

C23_AuthorizedFirst ==
    \A r \in DOMAIN req :
        (req[r].route # None /\ ~req[r].permitted)
        => /\ req[r].ops = <<>>
           /\ req[r].read = NoInvoice
           /\ ~req[r].guard.called

\* C26: a request denied by the permission check is answered 403, a request
\* for an invoice the store does not have 404, a status update outside the
\* table 400 and a create_invoice with invalid data 400.
C26_DocumentedStatus ==
    \A r \in DOMAIN req :
        req[r].pc = "done"
        => /\ req[r].cause = "permission" => req[r].response.code = 403
           /\ req[r].cause = "not_found" => req[r].response.code = 404
           /\ (/\ req[r].route = "update_invoice_status"
               /\ req[r].permitted
               /\ req[r].read = NoInvoice)
              => req[r].response.code = 404
           /\ (req[r].guard.called /\ ~req[r].guard.value)
              => req[r].response.code = 400
           /\ (req[r].route = "create_invoice" /\ req[r].cause = "validation")
              => req[r].response.code = 400

\* C27: whatever the interleaving of two status updates, the status the
\* store holds for an invoice changes only along an edge of the transition
\* table; PAID and CANCELLED are never overwritten.
C27_StoredStatusFollowsTable ==
    [][\A i \in InvoiceIds :
          (db[i] # NoInvoice /\ db'[i].status # db[i].status)
          => db'[i].status \in ALLOWED_STATE_TRANSITIONS[db[i].status]]_vars

QUANTUM_PLACES == 2

\* len(str(amount).split('.')[-1]) of an amount quantized to 0.01: str shows
\* the two places of the exponent, zeros included.
DecimalPlaces(amount) == QUANTUM_PLACES

\* C25: the total_amount of an invoice generate_invoice returns has no more
\* decimal places than the currency of the invoice has: 2 for USD, 2 for
\* INR, 0 for IDR.
C25_DecimalsOfCurrency ==
    (result.op = "generate_invoice" /\ result.ok)
    => DecimalPlaces(result.value.total_amount)
         <= CURRENCY_FORMATS[result.value.currency_code]

\* The raw inputs that differ from `data` at most in the values supplied for
\* subtotal, tax_amount, total_amount, tax_type and status
SuppliedVariants(data) ==
    {[data EXCEPT !.subtotal = a, !.tax_amount = b, !.total_amount = c,
                  !.tax_type = tt, !.status = st] :
        a \in SuppliedAmounts, b \in SuppliedAmounts, c \in SuppliedAmounts,
        tt \in SuppliedTaxTypes, st \in SuppliedStatuses}

\* C29: when generate_invoice returns an invoice, it returns an invoice with
\* the same subtotal, tax_amount, total_amount, tax_type and status for
\* every raw input that differs only in the values supplied for these five
\* fields and is accepted.
C29_ComputedFieldsIgnoreSupplied ==
    (result.op = "generate_invoice" /\ result.ok)
    => \A alt \in SuppliedVariants(input) :
          LET other == generate_invoice(alt, clock, 12345698)
          IN  other.ok
              => /\ other.value.subtotal = result.value.subtotal
                 /\ other.value.tax_amount = result.value.tax_amount
                 /\ other.value.total_amount = result.value.total_amount
                 /\ other.value.tax_type = result.value.tax_type
                 /\ other.value.status = result.value.status

\* C29 happens: the input supplied 9.99 for the three amounts, GST and PAID
\* for a customer of another state, and the invoice returned has IGST, DRAFT
\* and the amounts computed from the line item.
C29_Witness ==
    /\ result.op = "generate_invoice" /\ result.ok
    /\ input.subtotal = 999 /\ input.total_amount = 999
    /\ input.tax_type = "GST" /\ input.status = "PAID"
    /\ input.customer_details.state = "Karnataka"
    /\ result.value.tax_type = "IGST" /\ result.value.status = "DRAFT"
    /\ result.value.subtotal = 1000 /\ result.value.total_amount = 1180

\* C30: calculate_tax succeeds exactly when validate_tax_type resolves a tax
\* type, and then returns the tax_amount calculate_totals computes for the
\* same subtotal under that tax type; the two rate tables have the same tax
\* types.
C30_TaxComputationsAgree ==
    /\ DOMAIN tax_rates = DOMAIN TAX_RATES
    /\ result.op = "calculate_tax"
       => /\ result.ok = validate_tax_type(invoice).ok
          /\ result.ok
             => result.amount
                  = TotalsFrom([invoice EXCEPT
                                   !.tax_type = validate_tax_type(invoice).value],
                               invoice.subtotal).value.tax_amount

\* C30 happens: calculate_tax returned the IGST of a subtotal whose 18% is
\* not a whole number of cents.
C30_Witness ==
    /\ result.op = "calculate_tax" /\ result.ok
    /\ validate_tax_type(invoice).value = "IGST"
    /\ (18 * invoice.subtotal) % 100 # 0
    /\ result.amount > 0

(***************************************************************************)
(* Lifecycle graph                                                         *)
(***************************************************************************)
\* The statuses the guard accepts from status s
Successors(s) ==
    {t \in INVOICE_STATUSES :
        validate_state_transition([status |-> s], t).ok}

RECURSIVE ReachableIn(_, _)
\* The statuses reached from the set S by at most n accepted transitions
ReachableIn(S, n) ==
    IF n = 0 THEN S
    ELSE ReachableIn(S \cup UNION {Successors(s) : s \in S}, n - 1)

\* PAID and CANCELLED
TerminalStatuses == {"PAID", "CANCELLED"}

\* C28: a sequence of guard-accepted status changes of a generated invoice
\* starts from DRAFT, each change from the status the one before reached;
\* it has at most 3 steps, visits no status twice, never returns to DRAFT,
\* reaches OVERDUE only from PENDING, and from the status reached, when it is
\* not PAID or CANCELLED, PAID or CANCELLED can still be reached.
C28_LifecycleAcyclic ==
    LET path == StatusPath
        n == Len(path)
    IN  invoice # NoInvoice
        => /\ n <= 3
           /\ \A i \in 1..n :
                 /\ path[i].from = (IF i = 1 THEN "DRAFT" ELSE path[i - 1].to)
                 /\ path[i].to # "DRAFT"
                 /\ path[i].to = "OVERDUE" => path[i].from = "PENDING"
                 /\ \A j \in 1..n : i # j => path[i].to # path[j].to
           /\ invoice.status = (IF n = 0 THEN "DRAFT" ELSE path[n].to)
           /\ invoice.status \notin TerminalStatuses
                 => ReachableIn({invoice.status}, Cardinality(INVOICE_STATUSES))
                       \cap TerminalStatuses # {}

\* C28 happens: the invoice went DRAFT, PENDING, OVERDUE, PAID, and a fourth
\* change was asked for and refused.
C28_Witness ==
    /\ Len(StatusPath) = 3
    /\ StatusPath[1].from = "DRAFT" /\ StatusPath[1].to = "PENDING"
    /\ StatusPath[2].to = "OVERDUE"
    /\ StatusPath[3].to = "PAID"
    /\ result.op = "status" /\ ~result.ok
    /\ result.error.type = "ValueError"
    /\ invoice.status = "PAID"

====
